---- MODULE Spec2Model ----
(***************************************************************************)
(* Model of the Wyze lock (WLCKG1) zigbee2mqtt external converter,         *)
(* src/zigbee2mqtt/external_converters/wyze-lock-ext.js.                   *)
(*                                                                         *)
(* The converter fzLocal.wyze_lock_event.convert decodes one raw frame of  *)
(* cluster manuSpecificAssaDoorLock per call.  Its state is the two        *)
(* process-wide maps _seqHighWater and _lastEventTime and the one-time     *)
(* flag fzLocal._clusterPatched.  A frame is delivered by the radio layer  *)
(* (Deliver), decoded to completion by one call of convert (Convert), and  *)
(* the returned object is consumed by zigbee2mqtt (Publish).               *)
(*                                                                         *)
(* The file also holds the parameterized converter                         *)
(* fzLocal.c4_lock_operation_event.convert, which keeps no state and reads *)
(* its event and state codes from the device's options (ConvertC4).        *)
(***************************************************************************)
EXTENDS Integers, Sequences, FiniteSets, TLC

VARIABLES
    seqHighWater,    \* _seqHighWater : ieeeAddr -> highest data[13] seen
    lastEventTime,   \* _lastEventTime: ieeeAddr -> [counter, timestamp]
    clusterPatched,  \* fzLocal._clusterPatched
    registry,        \* what the one-time patch finds in zigbee-herdsman
    clock,           \* Date.now(), milliseconds
    pc,              \* "idle" | "pending" | "returned"
    msg,             \* the frame being (or last) handled by convert
    ret,             \* what convert returned
    outcome,         \* the return statement convert left through
    log,             \* logger calls of the last convert, in order
    before,          \* the two maps as the last convert found them
    firstOutcome,    \* outcome of the first delivery of msg ("none" before)
    replays,         \* retransmissions of msg delivered after the first
    calls,           \* frames counted against MaxCalls
    options,         \* the device's options, the fourth argument of convert
    accepted         \* <<ieeeAddr, counter>> of the frames of earlier calls
                     \* that got past the deduplicator (SpecReplay only)

vars == <<seqHighWater, lastEventTime, clusterPatched, registry, clock,
          pc, msg, ret, outcome, log, before, firstOutcome, replays, calls,
          options, accepted>>

-----------------------------------------------------------------------------
(* Program constants *)

IDX_SEQ == 13
IDX_EVENT_TYPE == 57
IDX_STATE == 46

EVT_MANUAL == 19
EVT_AUTO == 5
EVT_APP == 12
EVT_APP2 == 23
EVT_DOOR == 233

\* Mutant: one more app-trigger code, 24, among the lock-trigger types.
LOCK_EVT_TYPES_WithThirdApp == {EVT_MANUAL, EVT_AUTO, EVT_APP, EVT_APP2, 24}

LOCK_EVT_TYPES == {EVT_MANUAL, EVT_AUTO, EVT_APP, EVT_APP2}

MIN_LENGTH == 70
MAX_LENGTH == 90
COUNTER_MODULUS == 256
HALF_WINDOW == 128
STALE_STATE == 103
MS_PER_SEC == 1000
SAFETY_VALVE_SEC == 7200
SEC_PER_COUNT == 60
STALE_FLOOR_SEC == 300

Byte == 0..255

\* STATE_MAP: the keys and, per key, locked / door / confirmed.
\* door = "null" stands for JavaScript null.
\* Mutant: the defensive entry 112 left out of the table.
STATE_MAP_KEYS_Without112 == {0, 96, 103, 115}

STATE_MAP_KEYS == {0, 96, 103, 115, 112}

\* Mutant: the entry of 112 marked confirmed.
STATE_MAP_Entry112Confirmed(k) ==
    CASE k = 0   -> [locked |-> TRUE,  door |-> "null", confirmed |-> TRUE]
      [] k = 96  -> [locked |-> TRUE,  door |-> "null", confirmed |-> TRUE]
      [] k = 103 -> [locked |-> FALSE, door |-> "null", confirmed |-> TRUE]
      [] k = 115 -> [locked |-> FALSE, door |-> "open", confirmed |-> TRUE]
      [] k = 112 -> [locked |-> FALSE, door |-> "null", confirmed |-> TRUE]

STATE_MAP(k) ==
    CASE k = 0   -> [locked |-> TRUE,  door |-> "null", confirmed |-> TRUE]
      [] k = 96  -> [locked |-> TRUE,  door |-> "null", confirmed |-> TRUE]
      [] k = 103 -> [locked |-> FALSE, door |-> "null", confirmed |-> TRUE]
      [] k = 115 -> [locked |-> FALSE, door |-> "open", confirmed |-> TRUE]
      [] k = 112 -> [locked |-> FALSE, door |-> "null", confirmed |-> FALSE]

-----------------------------------------------------------------------------
(* JavaScript Map and object helpers *)

EmptyMap == [k \in {} |-> 0]

Has(map, k) == k \in DOMAIN map

Put(map, k, v) == [x \in (DOMAIN map) \cup {k} |-> IF x = k THEN v ELSE map[x]]

\* A raw frame: the device's ieeeAddr, msg.data.length and the three bytes
\* of msg.data that convert reads.
Frame(id, len, seq, evt, st) ==
    [ieeeAddr |-> id, length |-> len,
     data |-> (IDX_SEQ :> seq) @@ (IDX_EVENT_TYPE :> evt) @@ (IDX_STATE :> st)]

NoFrame == [ieeeAddr |-> "", length |-> 0, data |-> EmptyMap]

-----------------------------------------------------------------------------
(* Deduplication: isOldOrDuplicate *)

\* Mutant: the operands of the subtraction exchanged.
SeqDiff_Swapped(highWater, incoming) ==
    (incoming - highWater + COUNTER_MODULUS) % COUNTER_MODULUS

\* diff = (highWater - incoming + 256) % 256
SeqDiff(highWater, incoming) ==
    (highWater - incoming + COUNTER_MODULUS) % COUNTER_MODULUS

\* Mutant: the half-window taken inclusive.
IsBehind_Inclusive(diff) == diff <= HALF_WINDOW

\* Mutant: a counter equal to the high-water mark not taken as behind.
IsBehind_Strict(diff) == diff > 0 /\ diff < HALF_WINDOW

\* diff < 128: same as or behind the high-water mark
IsBehind(diff) == diff < HALF_WINDOW

\* Mutant: a first-seen frame is let through without being recorded.
isOldOrDuplicate_FirstSeenNotRecorded(hw, m) ==
    LET incoming == m.data[IDX_SEQ]
        id       == m.ieeeAddr
    IN  IF ~Has(hw, id)
        THEN [drop |-> FALSE, seqHighWater |-> hw, log |-> <<>>]
        ELSE IF IsBehind(SeqDiff(hw[id], incoming))
        THEN [drop |-> TRUE, seqHighWater |-> hw, log |-> <<>>]
        ELSE [drop |-> FALSE, seqHighWater |-> Put(hw, id, incoming), log |-> <<>>]

\* Mutant: the high-water mark set before the comparison decides.
isOldOrDuplicate_AlwaysRecords(hw, m) ==
    LET incoming == m.data[IDX_SEQ]
        id       == m.ieeeAddr
    IN  IF ~Has(hw, id)
        THEN [drop |-> FALSE, seqHighWater |-> Put(hw, id, incoming), log |-> <<>>]
        ELSE [drop |-> IsBehind(SeqDiff(hw[id], incoming)),
              seqHighWater |-> Put(hw, id, incoming), log |-> <<>>]

\* isOldOrDuplicate(msg) on the map hw: the returned boolean, the map after
\* the call and the logger calls made.
isOldOrDuplicate(hw, m) ==
    LET incoming == m.data[IDX_SEQ]
        id       == m.ieeeAddr
    IN  IF ~Has(hw, id)
        THEN [drop |-> FALSE, seqHighWater |-> Put(hw, id, incoming), log |-> <<>>]
        ELSE LET diff == SeqDiff(hw[id], incoming)
             IN  IF IsBehind(diff)
                 THEN [drop |-> TRUE, seqHighWater |-> hw,
                       log |-> << <<"debug",
                                    IF diff = 0 THEN "duplicate" ELSE "delayed">> >>]
                 ELSE [drop |-> FALSE, seqHighWater |-> Put(hw, id, incoming),
                       log |-> <<>>]

-----------------------------------------------------------------------------
(* Staleness: isStale and markEventProcessed *)

\* counterDelta = (incoming - last.counter + 256) % 256
CounterDelta(incoming, lastCounter) ==
    (incoming - lastCounter + COUNTER_MODULUS) % COUNTER_MODULUS

\* timeDeltaSec = Math.floor((now - last.timestamp) / 1000)
TimeDeltaSec(now, lastTimestamp) == (now - lastTimestamp) \div MS_PER_SEC

\* Mutant: the safety valve compared in milliseconds.
PastSafetyValve_Millis(timeDeltaSec) == timeDeltaSec > SAFETY_VALVE_SEC * MS_PER_SEC

\* timeDeltaSec > 7200: the safety valve
PastSafetyValve(timeDeltaSec) == timeDeltaSec > SAFETY_VALVE_SEC

\* Mutant: the 300 s floor taken inclusive.
TooSlow_FloorInclusive(timeDeltaSec, counterDelta) ==
    /\ timeDeltaSec > counterDelta * SEC_PER_COUNT
    /\ timeDeltaSec >= STALE_FLOOR_SEC

\* timeDeltaSec > expectedMaxSec && timeDeltaSec > 300
TooSlow(timeDeltaSec, counterDelta) ==
    /\ timeDeltaSec > counterDelta * SEC_PER_COUNT
    /\ timeDeltaSec > STALE_FLOOR_SEC

\* Mutant: a device without a record compared against counter 0 at time 0.
isStale_ZeroRecord(last, m, eventState, now) ==
    IF eventState # STALE_STATE THEN FALSE
    ELSE LET rec == IF Has(last, m.ieeeAddr) THEN last[m.ieeeAddr]
                    ELSE [counter |-> 0, timestamp |-> 0]
             counterDelta == CounterDelta(m.data[IDX_SEQ], rec.counter)
             timeDeltaSec == TimeDeltaSec(now, rec.timestamp)
         IN  IF PastSafetyValve(timeDeltaSec) THEN FALSE
             ELSE TooSlow(timeDeltaSec, counterDelta)

\* Mutant: the filter applied whatever the composite state.
isStale_AnyState(last, m, eventState, now) ==
    IF ~Has(last, m.ieeeAddr) THEN FALSE
    ELSE LET counterDelta == CounterDelta(m.data[IDX_SEQ], last[m.ieeeAddr].counter)
             timeDeltaSec == TimeDeltaSec(now, last[m.ieeeAddr].timestamp)
         IN  IF PastSafetyValve(timeDeltaSec) THEN FALSE
             ELSE TooSlow(timeDeltaSec, counterDelta)

\* isStale(msg, eventState) on the map last, with Date.now() = now
isStale(last, m, eventState, now) ==
    IF eventState # STALE_STATE THEN FALSE
    ELSE IF ~Has(last, m.ieeeAddr) THEN FALSE
    ELSE LET counterDelta == CounterDelta(m.data[IDX_SEQ], last[m.ieeeAddr].counter)
             timeDeltaSec == TimeDeltaSec(now, last[m.ieeeAddr].timestamp)
         IN  IF PastSafetyValve(timeDeltaSec) THEN FALSE
             ELSE TooSlow(timeDeltaSec, counterDelta)

\* Mutant: one record shared by every device.
markEventProcessed_AllDevices(last, m, now) ==
    [d \in DOMAIN last \cup {m.ieeeAddr} |->
        [counter |-> m.data[IDX_SEQ], timestamp |-> now]]

\* markEventProcessed(msg) on the map last, with Date.now() = now
markEventProcessed(last, m, now) ==
    Put(last, m.ieeeAddr, [counter |-> m.data[IDX_SEQ], timestamp |-> now])

-----------------------------------------------------------------------------
(* One-time cluster patch at the head of convert *)

\* What the patch can find: the require or the registry access throws; no
\* Zcl.Clusters.manuSpecificAssaDoorLock; the cluster without command 0x00;
\* the cluster with command 0x00 already.
RegistryStates == {"throws", "missing", "unpatched", "patched"}

PatchRegistry(reg) == IF reg = "unpatched" THEN "patched" ELSE reg

PatchLog(reg) ==
    CASE reg = "unpatched" -> << <<"info", "cluster_patched">> >>
      [] reg = "patched"   -> << <<"debug", "cluster_already_patched">> >>
      [] reg = "missing"   -> << <<"warning", "cluster_not_found">> >>
      [] reg = "throws"    -> << <<"warning", "cluster_patch_failed">> >>

-----------------------------------------------------------------------------
(* Classification: the body of convert after both filters *)

\* Mutant: no upper limit on msg.data.length.
ValidLength_NoUpperLimit(m) == ~(m.length < MIN_LENGTH)

ValidLength(m) == ~(m.length < MIN_LENGTH \/ m.length > MAX_LENGTH)

ActionOf(eventType) ==
    IF eventType = EVT_MANUAL THEN "manual"
    ELSE IF eventType = EVT_AUTO THEN "auto"
    ELSE IF eventType = EVT_APP2 THEN "app"
    ELSE "app"

\* Mutant: door_state and contact set whatever stateInfo.door is.
LockFields_DoorUnconditional(result, eventType, eventState) ==
    LET stateInfo == STATE_MAP(eventState)
        r1 == Put(result, "state", IF stateInfo.locked THEN "LOCK" ELSE "UNLOCK")
        r2 == Put(r1, "lock_state", IF stateInfo.locked THEN "locked" ELSE "unlocked")
        r3 == Put(r2, "action", ActionOf(eventType))
    IN  Put(Put(r3, "door_state", stateInfo.door),
            "contact", stateInfo.door = "closed")

\* Mutant: result.action not set.
LockFields_NoAction(result, eventType, eventState) ==
    LET stateInfo == STATE_MAP(eventState)
        r1 == Put(result, "state", IF stateInfo.locked THEN "LOCK" ELSE "UNLOCK")
        r2 == Put(r1, "lock_state", IF stateInfo.locked THEN "locked" ELSE "unlocked")
    IN  IF stateInfo.door # "null"
        THEN Put(Put(r2, "door_state", stateInfo.door),
                 "contact", stateInfo.door = "closed")
        ELSE r2

\* The lock branch (eventType in LOCK_EVT_TYPES, eventState a key of
\* STATE_MAP): the fields it sets on result.
LockFields(result, eventType, eventState) ==
    LET stateInfo == STATE_MAP(eventState)
        r1 == Put(result, "state", IF stateInfo.locked THEN "LOCK" ELSE "UNLOCK")
        r2 == Put(r1, "lock_state", IF stateInfo.locked THEN "locked" ELSE "unlocked")
        r3 == Put(r2, "action", ActionOf(eventType))
    IN  IF stateInfo.door # "null"
        THEN Put(Put(r3, "door_state", stateInfo.door),
                 "contact", stateInfo.door = "closed")
        ELSE r3

\* Mutant: 112 not among the door-closed states.
DOOR_CLOSED_STATES_Without112 == {96}

DOOR_CLOSED_STATES == {96, 112}
DOOR_OPEN_STATES == {103, 115}
DOOR_OPEN_UNLOCKED_STATE == 115
DOOR_MOVEMENT_STATE == 0

\* Mutant: lock_state corrected for every door-open state.
DoorFields_AlwaysUnlocked(result, eventState) ==
    IF eventState \in DOOR_CLOSED_STATES
    THEN Put(Put(result, "door_state", "closed"), "contact", TRUE)
    ELSE IF eventState \in DOOR_OPEN_STATES
    THEN Put(Put(Put(result, "door_state", "open"), "contact", FALSE),
             "lock_state", "unlocked")
    ELSE result

\* The door branch (eventType = EVT_DOOR) for the states it knows.
DoorFields(result, eventState) ==
    IF eventState \in DOOR_CLOSED_STATES
    THEN Put(Put(result, "door_state", "closed"), "contact", TRUE)
    ELSE IF eventState \in DOOR_OPEN_STATES
    THEN LET r == Put(Put(result, "door_state", "open"), "contact", FALSE)
         IN  IF eventState = DOOR_OPEN_UNLOCKED_STATE
             THEN Put(r, "lock_state", "unlocked")
             ELSE r
    ELSE result

DoorLog(eventState) ==
    IF eventState \in DOOR_CLOSED_STATES THEN << <<"debug", "door_closed">> >>
    ELSE IF eventState \in DOOR_OPEN_STATES THEN << <<"debug", "door_open">> >>
    ELSE << <<"debug", "door_movement">> >>

Returned(value) == [defined |-> TRUE, value |-> value]
ReturnedUndefined == [defined |-> FALSE, value |-> EmptyMap]

\* Lines 256-346 of convert: [ret, outcome, log] for a frame that passed
\* both filters.
Classify(eventType, eventState) ==
    LET isLock == eventType \in LOCK_EVT_TYPES
        isDoor == eventType = EVT_DOOR
    IN  IF isLock /\ eventState \notin STATE_MAP_KEYS
        THEN [ret |-> ReturnedUndefined, outcome |-> "unknown_state",
              log |-> << <<"warning", "unknown_state">> >>]
        ELSE
        LET afterLock == IF isLock THEN LockFields(EmptyMap, eventType, eventState)
                         ELSE EmptyMap
            lockLog == IF isLock
                       THEN (IF STATE_MAP(eventState).confirmed THEN <<>>
                             ELSE << <<"warning", "unconfirmed_state">> >>)
                            \o << <<"debug", "lock_event">> >>
                       ELSE <<>>
        IN  IF isDoor /\ eventState \notin
                   (DOOR_CLOSED_STATES \cup DOOR_OPEN_STATES \cup {DOOR_MOVEMENT_STATE})
            THEN [ret |-> ReturnedUndefined, outcome |-> "unknown_door_state",
                  log |-> lockLog \o << <<"warning", "unknown_door_state">> >>]
            ELSE
            LET afterDoor == IF isDoor THEN DoorFields(afterLock, eventState)
                             ELSE afterLock
                doorLog == IF isDoor THEN lockLog \o DoorLog(eventState) ELSE lockLog
            IN  IF ~isLock /\ ~isDoor
                THEN [ret |-> ReturnedUndefined, outcome |-> "unknown_event_type",
                      log |-> doorLog \o << <<"warning", "unknown_event_type">> >>]
                ELSE [ret |-> Returned(afterDoor), outcome |-> "result",
                      log |-> doorLog]

-----------------------------------------------------------------------------
(* fzLocal.wyze_lock_event.convert, the whole call *)

\* Mutant: a stale drop puts the high-water mark back where it was.
Decode_StaleRestoresHighWater(hw, last, m, now) ==
    IF ~ValidLength(m)
    THEN [seqHighWater |-> hw, lastEventTime |-> last,
          ret |-> ReturnedUndefined, outcome |-> "malformed", log |-> <<>>]
    ELSE
    LET dd == isOldOrDuplicate(hw, m)
    IN  IF dd.drop
        THEN [seqHighWater |-> dd.seqHighWater, lastEventTime |-> last,
              ret |-> ReturnedUndefined, outcome |-> "old_or_duplicate",
              log |-> dd.log]
        ELSE
        LET eventType  == m.data[IDX_EVENT_TYPE]
            eventState == m.data[IDX_STATE]
        IN  IF isStale(last, m, eventState, now)
            THEN [seqHighWater |-> hw, lastEventTime |-> last,
                  ret |-> ReturnedUndefined, outcome |-> "stale",
                  log |-> dd.log \o << <<"warning", "stale">> >>]
            ELSE
            LET c == Classify(eventType, eventState)
            IN  [seqHighWater |-> dd.seqHighWater,
                 lastEventTime |-> markEventProcessed(last, m, now),
                 ret |-> c.ret, outcome |-> c.outcome, log |-> dd.log \o c.log]

\* Mutant: markEventProcessed called before isStale has decided.
Decode_MarkBeforeStale(hw, last, m, now) ==
    IF ~ValidLength(m)
    THEN [seqHighWater |-> hw, lastEventTime |-> last,
          ret |-> ReturnedUndefined, outcome |-> "malformed", log |-> <<>>]
    ELSE
    LET dd == isOldOrDuplicate(hw, m)
    IN  IF dd.drop
        THEN [seqHighWater |-> dd.seqHighWater, lastEventTime |-> last,
              ret |-> ReturnedUndefined, outcome |-> "old_or_duplicate",
              log |-> dd.log]
        ELSE
        LET eventType  == m.data[IDX_EVENT_TYPE]
            eventState == m.data[IDX_STATE]
            marked     == markEventProcessed(last, m, now)
        IN  IF isStale(last, m, eventState, now)
            THEN [seqHighWater |-> dd.seqHighWater, lastEventTime |-> marked,
                  ret |-> ReturnedUndefined, outcome |-> "stale",
                  log |-> dd.log \o << <<"warning", "stale">> >>]
            ELSE
            LET c == Classify(eventType, eventState)
            IN  [seqHighWater |-> dd.seqHighWater, lastEventTime |-> marked,
                 ret |-> c.ret, outcome |-> c.outcome, log |-> dd.log \o c.log]

\* Lines 245-346: the call after the patch block, on the maps hw and last
\* with Date.now() = now.
Decode(hw, last, m, now) ==
    IF ~ValidLength(m)
    THEN [seqHighWater |-> hw, lastEventTime |-> last,
          ret |-> ReturnedUndefined, outcome |-> "malformed", log |-> <<>>]
    ELSE
    LET dd == isOldOrDuplicate(hw, m)
    IN  IF dd.drop
        THEN [seqHighWater |-> dd.seqHighWater, lastEventTime |-> last,
              ret |-> ReturnedUndefined, outcome |-> "old_or_duplicate",
              log |-> dd.log]
        ELSE
        LET eventType  == m.data[IDX_EVENT_TYPE]
            eventState == m.data[IDX_STATE]
        IN  IF isStale(last, m, eventState, now)
            THEN [seqHighWater |-> dd.seqHighWater, lastEventTime |-> last,
                  ret |-> ReturnedUndefined, outcome |-> "stale",
                  log |-> dd.log \o << <<"warning", "stale">> >>]
            ELSE
            LET c == Classify(eventType, eventState)
            IN  [seqHighWater |-> dd.seqHighWater,
                 lastEventTime |-> markEventProcessed(last, m, now),
                 ret |-> c.ret, outcome |-> c.outcome, log |-> dd.log \o c.log]

-----------------------------------------------------------------------------
(* Actions *)

\* The radio layer hands a new raw frame to convert, dt milliseconds after
\* the previous event.
Deliver(m, dt) ==
    /\ pc = "idle"
    /\ pc' = "pending"
    /\ msg' = m
    /\ clock' = clock + dt
    /\ UNCHANGED <<seqHighWater, lastEventTime, clusterPatched, registry,
                   options, accepted,
                   ret, outcome, log, before, firstOutcome, replays>>

\* The lock, never acknowledged, retransmits the frame convert just handled.
Retransmit(dt) ==
    /\ pc = "returned"
    /\ pc' = "pending"
    /\ clock' = clock + dt
    /\ replays' = replays + 1
    /\ UNCHANGED <<seqHighWater, lastEventTime, clusterPatched, registry,
                   options, accepted,
                   msg, ret, outcome, log, before, firstOutcome>>

\* One call of fzLocal.wyze_lock_event.convert on msg, to completion.
Convert ==
    /\ pc = "pending"
    /\ LET d == Decode(seqHighWater, lastEventTime, msg, clock)
           patchLog == IF clusterPatched THEN <<>> ELSE PatchLog(registry)
       IN  /\ seqHighWater' = d.seqHighWater
           /\ lastEventTime' = d.lastEventTime
           /\ ret' = d.ret
           /\ outcome' = d.outcome
           /\ log' = patchLog \o d.log
           /\ firstOutcome' = IF replays = 0 THEN d.outcome ELSE firstOutcome
    /\ before' = [seqHighWater |-> seqHighWater, lastEventTime |-> lastEventTime]
    /\ registry' = IF clusterPatched THEN registry ELSE PatchRegistry(registry)
    /\ clusterPatched' = TRUE
    /\ pc' = "returned"
    /\ UNCHANGED <<clock, msg, replays, calls, options, accepted>>

\* zigbee2mqtt consumes the returned object (publishes it, or nothing).
Publish ==
    /\ pc = "returned"
    /\ pc' = "idle"
    /\ msg' = NoFrame
    /\ ret' = ReturnedUndefined
    /\ outcome' = "none"
    /\ log' = <<>>
    /\ before' = [seqHighWater |-> EmptyMap, lastEventTime |-> EmptyMap]
    /\ firstOutcome' = "none"
    /\ replays' = 0
    /\ UNCHANGED <<seqHighWater, lastEventTime, clusterPatched, registry,
                   options, accepted,
                   clock, calls>>

\* The state when the converter module has been loaded.
Loaded(regs) ==
    /\ seqHighWater = EmptyMap
    /\ lastEventTime = EmptyMap
    /\ clusterPatched = FALSE
    /\ registry \in regs
    /\ clock = 0
    /\ pc = "idle"
    /\ msg = NoFrame
    /\ ret = ReturnedUndefined
    /\ outcome = "none"
    /\ log = <<>>
    /\ before = [seqHighWater |-> EmptyMap, lastEventTime |-> EmptyMap]
    /\ firstOutcome = "none"
    /\ replays = 0
    /\ calls = 0
    /\ options = EmptyMap
    /\ accepted = {}

-----------------------------------------------------------------------------
(* Spec: up to MaxCalls deliveries (frames and retransmissions) of sampled   *)
(* frames at sampled intervals                                               *)

MaxCalls == 3

Devices == {"lock1"}
Lengths == {69, 80}
Seqs == {72, 73, 75, 200}
EventTypes == {19, 233, 7}
EventStates == {96, 103, 115, 50}
TimeSteps == {0, 300000, 301000, 7201000}

Frames == {Frame(id, len, seq, evt, st) :
             id \in Devices, len \in Lengths, seq \in Seqs,
             evt \in EventTypes, st \in EventStates}

Init == Loaded(RegistryStates)

DeliverFrame ==
    /\ pc = "idle"
    /\ calls < MaxCalls
    /\ calls' = calls + 1
    /\ \E m \in Frames, dt \in TimeSteps : Deliver(m, dt)

RetransmitFrame ==
    /\ pc = "returned"
    /\ calls < MaxCalls
    /\ calls' = calls + 1
    /\ \E dt \in TimeSteps : Retransmit(dt)

Next == DeliverFrame \/ RetransmitFrame \/ Convert \/ Publish

Spec == Init /\ [][Next]_vars

-----------------------------------------------------------------------------
(* SpecDedup: any sequence of frames of one lock over every counter value,  *)
(* delivered back to back (the clock stands still)                          *)

DedupFrames == {Frame("lock1", 80, seq, EVT_MANUAL, 96) : seq \in Byte}

InitDedup == Loaded({"unpatched"})

DeliverAnyCounter ==
    /\ pc = "idle"
    /\ UNCHANGED calls
    /\ \E m \in DedupFrames : Deliver(m, 0)

NextDedup == DeliverAnyCounter \/ Convert \/ Publish

SpecDedup == InitDedup /\ [][NextDedup]_vars

-----------------------------------------------------------------------------
(* SpecRun: one lock whose lifetime counter data[13] goes up by one, modulo  *)
(* 256, from frame to frame, starting anywhere                              *)

InitRun == Loaded({"unpatched"})

FirstFrame ==
    /\ pc = "idle"
    /\ ~Has(seqHighWater, "lock1")
    /\ UNCHANGED calls
    /\ \E seq \in Byte : Deliver(Frame("lock1", 80, seq, EVT_MANUAL, 96), 0)

\* The frame of the lock's next event follows the one just handled.
NextFrame ==
    /\ pc = "returned"
    /\ pc' = "pending"
    /\ msg' = [msg EXCEPT !.data[IDX_SEQ] = (@ + 1) % COUNTER_MODULUS]
    /\ firstOutcome' = "none"
    /\ replays' = 0
    /\ UNCHANGED <<seqHighWater, lastEventTime, clusterPatched, registry,
                   options, accepted,
                   clock, ret, outcome, log, before, calls>>

NextRun == FirstFrame \/ NextFrame \/ Convert

SpecRun == InitRun /\ [][NextRun]_vars

-----------------------------------------------------------------------------
(* SpecStale: a first frame of a lock and then one frame with any counter,  *)
(* at any of the offsets around the thresholds of isStale                   *)

InitStale == Loaded({"unpatched"})

\* Offsets in seconds: k*60 and k*60+1 around expectedMaxSec for every
\* counterDelta a frame ahead of the high-water mark can have, the floor,
\* the safety valve, and beyond.
StaleSeconds ==
    {k * 60 + j : k \in 1..128, j \in {0, 1}}
        \cup {1, 30, 299, 300, 301, 7199, 7200, 7201, 9000}

StaleOffsets == {s * 1000 : s \in StaleSeconds} \cup {300999, 7200999}

FirstStaleFrame ==
    /\ pc = "idle"
    /\ ~Has(seqHighWater, "lock1")
    /\ UNCHANGED calls
    /\ \E st \in {96, 103} : Deliver(Frame("lock1", 80, 200, EVT_MANUAL, st), 0)

LaterFrame ==
    /\ pc = "idle"
    /\ Has(seqHighWater, "lock1")
    /\ clock = 0
    /\ UNCHANGED calls
    /\ \E seq \in Byte, st \in {96, 103}, off \in StaleOffsets :
           Deliver(Frame("lock1", 80, seq, EVT_MANUAL, st), off)

NextStale == FirstStaleFrame \/ LaterFrame \/ Convert \/ Publish

SpecStale == InitStale /\ [][NextStale]_vars

-----------------------------------------------------------------------------
(* SpecClassify: the first frame of a lock, over every event type and every *)
(* composite state                                                          *)

InitClassify == Loaded({"unpatched"})

FirstAnyFrame ==
    /\ pc = "idle"
    /\ ~Has(seqHighWater, "lock1")
    /\ UNCHANGED calls
    /\ \E evt \in Byte, st \in Byte : Deliver(Frame("lock1", 80, 72, evt, st), 0)

NextClassify == FirstAnyFrame \/ Convert \/ Publish

SpecClassify == InitClassify /\ [][NextClassify]_vars

-----------------------------------------------------------------------------
(* SpecTrace: a fresh lock sends the three frames of the end-to-end         *)
(* scenario in order, each of any valid length and after any of the gaps,   *)
(* whatever the cluster patch finds; calls counts the frames sent so far    *)

\* <<counter, event type, composite state>> of each frame.
TraceEvents == << <<72, 19, 96>>, <<72, 19, 96>>, <<73, 233, 115>> >>

TraceLengths == 70..90
TraceGaps == {0, 1000, 301000}

InitTrace == Loaded(RegistryStates)

DeliverTraceFrame ==
    /\ pc = "idle"
    /\ calls < Len(TraceEvents)
    /\ calls' = calls + 1
    /\ \E len \in TraceLengths, dt \in TraceGaps :
          LET ev == TraceEvents[calls + 1]
          IN  Deliver(Frame("lock1", len, ev[1], ev[2], ev[3]), dt)

NextTrace == DeliverTraceFrame \/ Convert \/ Publish

SpecTrace == InitTrace /\ [][NextTrace]_vars

-----------------------------------------------------------------------------
(* SpecLength: frames of every length from 0 to 100 bytes, to a lock that   *)
(* is fresh or has been heard before, delivered back to back                *)

LengthsAll == 0..100
LengthSeqs == {72, 73}

InitLength == Loaded({"unpatched"})

DeliverAnyLength ==
    /\ pc = "idle"
    /\ UNCHANGED calls
    /\ \E len \in LengthsAll, seq \in LengthSeqs :
          Deliver(Frame("lock1", len, seq, EVT_MANUAL, 96), 0)

NextLength == DeliverAnyLength \/ Convert \/ Publish

SpecLength == InitLength /\ [][NextLength]_vars

-----------------------------------------------------------------------------
(* SpecScope: a lock heard once, then one frame of any composite state, of  *)
(* a lock or a door trigger, with counters and gaps on both sides of every  *)
(* threshold of isStale                                                     *)

InitScope == Loaded({"unpatched"})

ScopeSeqs == {201, 203, 205, 72, 199}
ScopeOffsets == {1000, 300000, 301000, 600000, 7200000, 7201000}

FirstScopeFrame ==
    /\ pc = "idle"
    /\ ~Has(seqHighWater, "lock1")
    /\ UNCHANGED calls
    /\ Deliver(Frame("lock1", 80, 200, EVT_MANUAL, 96), 0)

LaterScopeFrame ==
    /\ pc = "idle"
    /\ Has(seqHighWater, "lock1")
    /\ clock = 0
    /\ UNCHANGED calls
    /\ \E seq \in ScopeSeqs, evt \in {EVT_MANUAL, EVT_DOOR}, st \in Byte,
          off \in ScopeOffsets :
           Deliver(Frame("lock1", 80, seq, evt, st), off)

NextScope == FirstScopeFrame \/ LaterScopeFrame \/ Convert \/ Publish

SpecScope == InitScope /\ [][NextScope]_vars

-----------------------------------------------------------------------------
(* SpecTwo: two locks whose frames arrive interleaved in any order, up to   *)
(* MaxCalls frames in all                                                   *)

TwoDevices == {"lockA", "lockB"}
TwoSeqs == {72, 73, 200}
TwoStates == {96, 103}
TwoGaps == {0, 301000}

InitTwo == Loaded({"unpatched"})

DeliverEither ==
    /\ pc = "idle"
    /\ calls < MaxCalls
    /\ calls' = calls + 1
    /\ \E id \in TwoDevices, seq \in TwoSeqs, st \in TwoStates, dt \in TwoGaps :
          Deliver(Frame(id, 80, seq, EVT_MANUAL, st), dt)

NextTwo == DeliverEither \/ Convert \/ Publish

SpecTwo == InitTwo /\ [][NextTwo]_vars

-----------------------------------------------------------------------------
(* SpecFirst: the first frame of a lock, over every counter and every       *)
(* composite state, at load time or 301 seconds later                       *)

FirstTypes == {EVT_MANUAL, EVT_DOOR, 7}
FirstDelays == {0, 301000}

InitFirst == Loaded({"unpatched"})

FirstFrameAnyCounter ==
    /\ pc = "idle"
    /\ ~Has(seqHighWater, "lock1")
    /\ UNCHANGED calls
    /\ \E seq \in Byte, evt \in FirstTypes, st \in Byte, dt \in FirstDelays :
          Deliver(Frame("lock1", 80, seq, evt, st), dt)

NextFirst == FirstFrameAnyCounter \/ Convert \/ Publish

SpecFirst == InitFirst /\ [][NextFirst]_vars

-----------------------------------------------------------------------------
(* SpecUnconfirmed: lock-trigger frames of every composite state, to a      *)
(* lock that is fresh or has been heard before, whatever the cluster patch  *)
(* finds on the first call                                                  *)

UnconfirmedSeqs == {72, 73}

InitUnconfirmed == Loaded(RegistryStates)

DeliverLockTrigger ==
    /\ pc = "idle"
    /\ UNCHANGED calls
    /\ \E seq \in UnconfirmedSeqs, evt \in LOCK_EVT_TYPES, st \in Byte :
          Deliver(Frame("lock1", 80, seq, evt, st), 0)

NextUnconfirmed == DeliverLockTrigger \/ Convert \/ Publish

SpecUnconfirmed == InitUnconfirmed /\ [][NextUnconfirmed]_vars

-----------------------------------------------------------------------------
(* fzLocal.c4_lock_operation_event.convert, the parameterized converter *)

\* options.<name> || fallback: an option that is absent or 0 is falsy.
OptionOr(opts, name, fallback) ==
    IF Has(opts, name) /\ opts[name] # 0 THEN opts[name] ELSE fallback

SourceMessage(opts) ==
    [DOOR   |-> OptionOr(opts, "source_door", 242),
     MANUAL |-> OptionOr(opts, "source_manual", 8),
     AUTO   |-> OptionOr(opts, "source_auto", 5),
     APP    |-> OptionOr(opts, "source_app", 12)]

DoorState(opts) ==
    [OPEN   |-> OptionOr(opts, "door_open", 91),
     CLOSED |-> OptionOr(opts, "door_closed", 88)]

LockState(opts) ==
    [LOCKED   |-> OptionOr(opts, "lock_locked", 72),
     UNLOCKED |-> OptionOr(opts, "lock_unlocked", 79)]

\* The option names declared in definition.options, each 0..255.
OptionNames ==
    {"source_door", "source_manual", "source_auto", "source_app",
     "door_open", "door_closed", "lock_locked", "lock_unlocked"}

C4ValidLength(m) == ~(m.length < 70 \/ m.length > 90)

\* The if / else-if chain of lock events: the branch taken.
C4LockBranch(src, lock, eventType, eventState) ==
    IF eventType = src.APP /\ eventState = lock.UNLOCKED THEN "app_unlocked"
    ELSE IF eventType = src.APP /\ eventState = lock.LOCKED THEN "app_locked"
    ELSE IF eventType = src.MANUAL /\ eventState = lock.UNLOCKED THEN "manual_unlocked"
    ELSE IF eventType = src.MANUAL /\ eventState = lock.LOCKED THEN "manual_locked"
    ELSE IF eventType = src.AUTO /\ eventState = lock.LOCKED THEN "auto_locked"
    ELSE "none"

\* The if / else-if chain of door events: the branch taken.
C4DoorBranch(src, door, eventType, eventState) ==
    IF eventType = src.DOOR /\ eventState = door.OPEN THEN "door_open"
    ELSE IF eventType = src.DOOR /\ eventState = door.CLOSED THEN "door_closed"
    ELSE "none"

\* The object and the warnings the two chains produce with the codes src,
\* door and lock.
C4Classify(src, door, lock, eventType, eventState) ==
    LET lb == C4LockBranch(src, lock, eventType, eventState)
        db == C4DoorBranch(src, door, eventType, eventState)
        r1 == IF lb \in {"app_unlocked", "manual_unlocked"}
              THEN Put(Put(EmptyMap, "state", "UNLOCK"), "lock_state", "unlocked")
              ELSE IF lb \in {"app_locked", "manual_locked", "auto_locked"}
              THEN Put(Put(EmptyMap, "state", "LOCK"), "lock_state", "locked")
              ELSE EmptyMap
        r2 == IF db = "door_open" THEN Put(r1, "door_state", "open")
              ELSE IF db = "door_closed" THEN Put(r1, "door_state", "closed")
              ELSE r1
    IN  [value |-> r2,
         log |-> (IF lb = "none" THEN <<>> ELSE << <<"warning", lb>> >>)
                 \o (IF db = "none" THEN <<>> ELSE << <<"warning", db>> >>)]

\* The whole call: [ret, outcome, log].
c4_lock_operation_event(opts, m) ==
    IF ~C4ValidLength(m)
    THEN [ret |-> Returned(EmptyMap), outcome |-> "c4_malformed", log |-> <<>>]
    ELSE LET c == C4Classify(SourceMessage(opts), DoorState(opts), LockState(opts),
                             m.data[IDX_EVENT_TYPE], m.data[IDX_STATE])
         IN  [ret |-> Returned(c.value), outcome |-> "c4_result", log |-> c.log]

\* One call of fzLocal.c4_lock_operation_event.convert on msg with the
\* device's options, to completion (the function never awaits).
ConvertC4 ==
    /\ pc = "pending"
    /\ LET d == c4_lock_operation_event(options, msg)
       IN  /\ ret' = d.ret
           /\ outcome' = d.outcome
           /\ log' = d.log
    /\ before' = [seqHighWater |-> seqHighWater, lastEventTime |-> lastEventTime]
    /\ pc' = "returned"
    /\ UNCHANGED <<seqHighWater, lastEventTime, clusterPatched, registry,
                   options, accepted,
                   clock, msg, firstOutcome, replays, calls>>

\* The user sets one of the device's options in zigbee2mqtt.
Configure(name, v) ==
    /\ pc = "idle"
    /\ options' = Put(options, name, v)
    /\ UNCHANGED <<seqHighWater, lastEventTime, clusterPatched, registry,
                   clock, pc, msg, ret, outcome, log, before, firstOutcome,
                   replays, calls, accepted>>

-----------------------------------------------------------------------------
(* SpecOptions: the parameterized converter with no option or one option    *)
(* set, to every value 0..255, on frames whose event type and state are the *)
(* defaults, the configured value, or neither                               *)

InitOptions == Loaded({"unpatched"})

ConfigureOne ==
    /\ pc = "idle"
    /\ options = EmptyMap
    /\ \E name \in OptionNames, v \in Byte : Configure(name, v)

OptionValues == {options[n] : n \in DOMAIN options}
C4Lengths == {69, 80}
C4EventTypes == {242, 8, 5, 12, 0, 200} \cup OptionValues
C4EventStates == {91, 88, 72, 79, 0, 200} \cup OptionValues

DeliverC4 ==
    /\ pc = "idle"
    /\ UNCHANGED calls
    /\ \E len \in C4Lengths, evt \in C4EventTypes, st \in C4EventStates :
          Deliver(Frame("lock1", len, 0, evt, st), 0)

NextOptions == ConfigureOne \/ DeliverC4 \/ ConvertC4 \/ Publish

SpecOptions == InitOptions /\ [][NextOptions]_vars

-----------------------------------------------------------------------------
(* SpecReplay: one lock whose frames arrive in any order, replays of        *)
(* earlier frames among them, up to MaxCalls frames; accepted remembers the *)
(* counters of the earlier frames that got past the deduplicator            *)

ReplaySeqs == {72, 73, 199, 200}
ReplayStates == {96, 103}
ReplayGaps == {0, 301000}

InitReplay == Loaded({"unpatched"})

FirstDelivery ==
    /\ pc = "idle"
    /\ calls < MaxCalls
    /\ calls' = calls + 1
    /\ \E seq \in ReplaySeqs, st \in ReplayStates, dt \in ReplayGaps :
          Deliver(Frame("lock1", 80, seq, EVT_MANUAL, st), dt)

\* The radio layer hands the next frame to convert, a new one or a replay
\* of an earlier one, once the call on msg has returned.
NextDelivery ==
    /\ pc = "returned"
    /\ calls < MaxCalls
    /\ calls' = calls + 1
    /\ pc' = "pending"
    /\ accepted' = IF outcome \in {"malformed", "old_or_duplicate"}
                   THEN accepted
                   ELSE accepted \cup {<<msg.ieeeAddr, msg.data[IDX_SEQ]>>}
    /\ firstOutcome' = "none"
    /\ replays' = 0
    /\ \E seq \in ReplaySeqs, st \in ReplayStates, dt \in ReplayGaps :
          /\ msg' = Frame("lock1", 80, seq, EVT_MANUAL, st)
          /\ clock' = clock + dt
    /\ UNCHANGED <<seqHighWater, lastEventTime, clusterPatched, registry,
                   options, ret, outcome, log, before>>

NextReplay == FirstDelivery \/ NextDelivery \/ Convert

SpecReplay == InitReplay /\ [][NextReplay]_vars

-----------------------------------------------------------------------------
(* Properties *)

\* C1 (SpecDedup): for a device with high-water mark hw, a valid-length
\* frame with counter c is dropped by the deduplicator exactly when
\* (hw - c + 256) mod 256 < 128, and then the high-water map is unchanged;
\* otherwise the frame gets past the deduplicator and hw becomes c.
C1_DedupRule ==
    (pc = "returned" /\ msg.length >= 70 /\ msg.length <= 90
        /\ msg.ieeeAddr \in DOMAIN before.seqHighWater)
    => LET hw == before.seqHighWater[msg.ieeeAddr]
           c  == msg.data[13]
       IN  IF (hw - c + 256) % 256 < 128
           THEN outcome = "old_or_duplicate" /\ seqHighWater = before.seqHighWater
           ELSE /\ outcome # "old_or_duplicate"
                /\ seqHighWater[msg.ieeeAddr] = c

\* A frame exactly 127 behind the high-water mark has been dropped.
C1_Witness ==
    /\ pc = "returned"
    /\ msg.ieeeAddr \in DOMAIN before.seqHighWater
    /\ before.seqHighWater[msg.ieeeAddr] = 0
    /\ msg.data[13] = 129
    /\ outcome = "old_or_duplicate"

\* C2 (SpecDedup): in every step, a high-water mark that exists stays, and
\* if it changes from old to new then (old - new + 256) mod 256 >= 128: it
\* never moves to a value equal to or behind the previous one.
C2_HighWaterMonotone ==
    [][\A d \in DOMAIN seqHighWater :
          /\ d \in DOMAIN seqHighWater'
          /\ seqHighWater'[d] # seqHighWater[d]
                => (seqHighWater[d] - seqHighWater'[d] + 256) % 256 >= 128]_vars

\* The high-water mark has moved across the wrap, from 255 to 0.
C2_Witness ==
    /\ pc = "returned"
    /\ "lock1" \in DOMAIN before.seqHighWater
    /\ before.seqHighWater["lock1"] = 255
    /\ seqHighWater["lock1"] = 0

\* C3 (Spec): a call of convert leaves _lastEventTime as it found it when
\* the frame was dropped as malformed, as old or duplicate, or as stale; in
\* every other call the frame has a valid length and the device's record,
\* and only that, is set to the frame's counter and the time of the call.
C3_StalenessWrittenIffAccepted ==
    pc = "returned"
    => IF outcome \in {"malformed", "old_or_duplicate", "stale"}
       THEN lastEventTime = before.lastEventTime
       ELSE /\ msg.length >= 70 /\ msg.length <= 90
            /\ DOMAIN lastEventTime = DOMAIN before.lastEventTime \cup {msg.ieeeAddr}
            /\ lastEventTime[msg.ieeeAddr] =
                   [counter |-> msg.data[13], timestamp |-> clock]
            /\ \A d \in DOMAIN before.lastEventTime :
                   d # msg.ieeeAddr => lastEventTime[d] = before.lastEventTime[d]

\* A frame has been dropped as stale and the record still holds the
\* counter and the time of an earlier frame.
C3_Witness ==
    /\ pc = "returned"
    /\ outcome = "stale"
    /\ msg.ieeeAddr \in DOMAIN lastEventTime
    /\ lastEventTime[msg.ieeeAddr].counter # msg.data[13]
    /\ lastEventTime[msg.ieeeAddr].timestamp < clock

\* C4 (Spec), the claim as stated: a frame of composite state 103 whose
\* counter is 3 ahead of the last accepted counter and that arrives 300
\* seconds after the last accepted timestamp is dropped as stale.
C4_StaleAtThreeHundredSeconds ==
    (pc = "returned" /\ msg.length >= 70 /\ msg.length <= 90
        /\ msg.data[46] = 103
        /\ outcome # "old_or_duplicate"
        /\ msg.ieeeAddr \in DOMAIN before.lastEventTime
        /\ (msg.data[13] - before.lastEventTime[msg.ieeeAddr].counter + 256) % 256 = 3
        /\ clock - before.lastEventTime[msg.ieeeAddr].timestamp = 300000)
    => outcome = "stale"

\* C5 (SpecStale): a frame of composite state 103 that got past the
\* deduplicator, for a device with a staleness record and at most 7200
\* whole seconds after its timestamp, is dropped as stale if and only if
\* time_delta > counter_delta * 60 and time_delta > 300.
C5_StaleRule ==
    (pc = "returned" /\ msg.length >= 70 /\ msg.length <= 90
        /\ msg.data[46] = 103
        /\ outcome # "old_or_duplicate"
        /\ msg.ieeeAddr \in DOMAIN before.lastEventTime)
    => LET last == before.lastEventTime[msg.ieeeAddr]
           counter_delta == (msg.data[13] - last.counter + 256) % 256
           time_delta == (clock - last.timestamp) \div 1000
       IN  time_delta <= 7200
           => (outcome = "stale"
                 <=> (time_delta > counter_delta * 60 /\ time_delta > 300))

\* A frame 6 counts ahead has been dropped as stale 361 s after the last
\* accepted one (361 > 6 * 60 and 361 > 300).
C5_Witness ==
    /\ pc = "returned"
    /\ outcome = "stale"
    /\ msg.ieeeAddr \in DOMAIN before.lastEventTime
    /\ (msg.data[13] - before.lastEventTime[msg.ieeeAddr].counter + 256) % 256 = 6
    /\ clock - before.lastEventTime[msg.ieeeAddr].timestamp = 361000

\* C6 (SpecStale): a frame that got past the deduplicator more than 7200
\* whole seconds after the device's last accepted timestamp is not dropped
\* as stale, whatever its counter and composite state.
C6_SafetyValve ==
    (pc = "returned" /\ msg.length >= 70 /\ msg.length <= 90
        /\ outcome # "old_or_duplicate"
        /\ msg.ieeeAddr \in DOMAIN before.lastEventTime
        /\ (clock - before.lastEventTime[msg.ieeeAddr].timestamp) \div 1000 > 7200)
    => outcome # "stale"

\* A frame of state 103, one count ahead, 7201 s after the last accepted
\* one, has been processed.
C6_Witness ==
    /\ pc = "returned"
    /\ outcome = "result"
    /\ msg.data[46] = 103
    /\ msg.ieeeAddr \in DOMAIN before.lastEventTime
    /\ (msg.data[13] - before.lastEventTime[msg.ieeeAddr].counter + 256) % 256 = 1
    /\ clock - before.lastEventTime[msg.ieeeAddr].timestamp = 7201000

\* C7 (SpecReplay), the claim as stated: once a frame of a device with
\* counter c has got past the deduplicator, every later frame of that
\* device with the same counter is dropped by the deduplicator and leaves
\* the high-water mark and the staleness record as they were.
C7_ReplayAlwaysDropped ==
    (pc = "returned" /\ <<msg.ieeeAddr, msg.data[13]>> \in accepted)
    => /\ outcome = "old_or_duplicate"
       /\ seqHighWater = before.seqHighWater
       /\ lastEventTime = before.lastEventTime

\* C7 (SpecReplay), amended: a replay of a frame that got past the
\* deduplicator (same device, same counter c) is dropped by the
\* deduplicator, and leaves both maps as they were, exactly when the
\* device's high-water mark hw at the time of the replay has
\* (hw - c + 256) mod 256 < 128; that is so for every replay that comes
\* before any other frame has moved the high-water mark (hw = c), however
\* many there are.  A replay that comes after the high-water mark has
\* moved 128 or more counts past c gets past the deduplicator again and
\* becomes the high-water mark.
C7_ReplayDroppedWithinHalfWindow ==
    (pc = "returned" /\ <<msg.ieeeAddr, msg.data[13]>> \in accepted)
    => LET hw == before.seqHighWater[msg.ieeeAddr]
           c  == msg.data[13]
       IN  /\ hw = c => outcome = "old_or_duplicate"
           /\ IF (hw - c + 256) % 256 < 128
              THEN /\ outcome = "old_or_duplicate"
                   /\ seqHighWater = before.seqHighWater
                   /\ lastEventTime = before.lastEventTime
              ELSE /\ outcome # "old_or_duplicate"
                   /\ seqHighWater[msg.ieeeAddr] = c

\* The frame with counter 72 has been replayed for the second time, with
\* no other frame in between, and was dropped with both maps unchanged.
C7_Witness ==
    /\ pc = "returned"
    /\ calls = 3
    /\ <<"lock1", 72>> \in accepted
    /\ msg.data[13] = 72
    /\ before.seqHighWater["lock1"] = 72
    /\ before.lastEventTime["lock1"].counter = 72
    /\ outcome = "old_or_duplicate"
    /\ seqHighWater = before.seqHighWater
    /\ lastEventTime = before.lastEventTime

\* C8 (SpecRun): when the counter goes up by one modulo 256 from frame to
\* frame, from any start, every frame gets past the deduplicator (none is
\* dropped) and becomes the high-water mark.
C8_ConsecutiveCountersAccepted ==
    pc = "returned"
    => /\ outcome = "result"
       /\ seqHighWater[msg.ieeeAddr] = msg.data[13]

\* The frame with counter 0 has been accepted after the one with 255.
C8_Witness ==
    /\ pc = "returned"
    /\ "lock1" \in DOMAIN before.seqHighWater
    /\ before.seqHighWater["lock1"] = 255
    /\ msg.data[13] = 0
    /\ outcome = "result"

\* C9 (SpecClassify), the claim as stated: every returned event that has
\* lock_state also has action.
C9_LockStateImpliesAction ==
    (pc = "returned" /\ ret.defined /\ "lock_state" \in DOMAIN ret.value)
    => "action" \in DOMAIN ret.value

\* C9 (SpecClassify), amended: a returned event with lock_state has action
\* (and state) when its frame has a lock-trigger event type; otherwise the
\* frame is a door-trigger frame (233) of composite state 115 and the event
\* has lock_state = unlocked and no action.
C9_LockStateHasActionUnlessDoor115 ==
    (pc = "returned" /\ ret.defined /\ "lock_state" \in DOMAIN ret.value)
    => IF msg.data[57] \in {19, 5, 12, 23}
       THEN "action" \in DOMAIN ret.value /\ "state" \in DOMAIN ret.value
       ELSE /\ msg.data[57] = 233
            /\ msg.data[46] = 115
            /\ ret.value["lock_state"] = "unlocked"
            /\ "action" \notin DOMAIN ret.value

\* An auto-lock frame has produced lock_state together with action.
C9_Witness ==
    /\ pc = "returned"
    /\ ret.defined
    /\ msg.data[57] = 5
    /\ "lock_state" \in DOMAIN ret.value
    /\ "action" \in DOMAIN ret.value
    /\ ret.value["action"] = "auto"

\* C10 (SpecClassify), the claim as stated: a door-trigger frame that is
\* mapped to door open and whose composite state the state table marks as
\* unlocked yields an event with lock_state = unlocked.
C10_DoorOpenUnlockedByTable ==
    (pc = "returned" /\ msg.data[57] = 233 /\ ret.defined
        /\ "door_state" \in DOMAIN ret.value
        /\ ret.value["door_state"] = "open"
        /\ msg.data[46] \in STATE_MAP_KEYS
        /\ ~STATE_MAP(msg.data[46]).locked)
    => /\ "lock_state" \in DOMAIN ret.value
       /\ ret.value["lock_state"] = "unlocked"

\* C10 (SpecClassify), amended: a door-trigger frame that is mapped to door
\* open has composite state 115, and then the event has lock_state =
\* unlocked, or composite state 103, and then it has no lock_state.
C10_DoorOpenUnlockedOnly115 ==
    (pc = "returned" /\ msg.data[57] = 233 /\ ret.defined
        /\ "door_state" \in DOMAIN ret.value
        /\ ret.value["door_state"] = "open")
    => \/ /\ msg.data[46] = 115
          /\ "lock_state" \in DOMAIN ret.value
          /\ ret.value["lock_state"] = "unlocked"
       \/ /\ msg.data[46] = 103
          /\ "lock_state" \notin DOMAIN ret.value

\* A door-trigger frame of state 115 has produced door open, contact false
\* and lock_state unlocked.
C10_Witness ==
    /\ pc = "returned"
    /\ ret.defined
    /\ msg.data[57] = 233
    /\ msg.data[46] = 115
    /\ ret.value = [door_state |-> "open", contact |-> FALSE, lock_state |-> "unlocked"]

\* C11 (SpecTrace): for a fresh device the frames (counter 72, type 19,
\* state 96), (72, 19, 96), (73, 233, 115), all of valid length, make
\* convert return, in order: {state LOCK, lock_state locked, action manual}
\* with no door_state and no contact; nothing, the frame being dropped as a
\* duplicate; {door_state open, contact false, lock_state unlocked}.
C11_EndToEndTrace ==
    pc = "returned"
    => /\ calls = 1 =>
            /\ ret.defined
            /\ DOMAIN ret.value = {"state", "lock_state", "action"}
            /\ ret.value["state"] = "LOCK"
            /\ ret.value["lock_state"] = "locked"
            /\ ret.value["action"] = "manual"
       /\ calls = 2 =>
            /\ ~ret.defined
            /\ outcome = "old_or_duplicate"
       /\ calls = 3 =>
            /\ ret.defined
            /\ DOMAIN ret.value = {"door_state", "contact", "lock_state"}
            /\ ret.value["door_state"] = "open"
            /\ ret.value["contact"] = FALSE
            /\ ret.value["lock_state"] = "unlocked"

\* The third frame of the scenario has been decoded, after the first was
\* recorded and the resend left the high-water mark at 72.
C11_Witness ==
    /\ pc = "returned"
    /\ calls = 3
    /\ msg.data[13] = 73
    /\ before.seqHighWater["lock1"] = 72
    /\ before.lastEventTime["lock1"].counter = 72
    /\ ret.defined

\* C12 (SpecLength): a frame shorter than 70 or longer than 90 bytes makes
\* convert return nothing and leaves both maps as they were: neither the
\* device's high-water mark nor its staleness record is created or changed.
C12_MalformedLeavesNoTrace ==
    (pc = "returned" /\ (msg.length < 70 \/ msg.length > 90))
    => /\ ~ret.defined
       /\ seqHighWater = before.seqHighWater
       /\ lastEventTime = before.lastEventTime

\* A 91-byte frame was the first frame of the lock, and the lock still has
\* no high-water mark and no staleness record.
C12_Witness ==
    /\ pc = "returned"
    /\ msg.length = 91
    /\ msg.ieeeAddr = "lock1"
    /\ "lock1" \notin DOMAIN seqHighWater
    /\ "lock1" \notin DOMAIN lastEventTime
    /\ ~ret.defined

\* C13 (SpecClassify): for every key of STATE_MAP (0, 96, 103, 112, 115)
\* and every lock-trigger event type (19, 5, 12, 23), a frame that reaches
\* the classifier yields an event whose lock_state is locked exactly when
\* the entry's locked flag is true (keys 0 and 96) and that has door_state
\* and contact exactly when the entry's door is not null (key 115).
C13_CompositeStateRoundTrip ==
    (pc = "returned"
        /\ msg.data[57] \in {19, 5, 12, 23}
        /\ msg.data[46] \in {0, 96, 103, 112, 115}
        /\ outcome \notin {"malformed", "old_or_duplicate", "stale"})
    => /\ ret.defined
       /\ "lock_state" \in DOMAIN ret.value
       /\ ret.value["lock_state"] \in {"locked", "unlocked"}
       /\ (ret.value["lock_state"] = "locked") <=> (msg.data[46] \in {0, 96})
       /\ ("door_state" \in DOMAIN ret.value) <=> (msg.data[46] = 115)
       /\ ("contact" \in DOMAIN ret.value) <=> (msg.data[46] = 115)

\* An app-triggered frame of state 115, the one entry with a door, has
\* produced lock_state unlocked with door_state open and contact false.
C13_Witness ==
    /\ pc = "returned"
    /\ msg.data[57] = 12
    /\ msg.data[46] = 115
    /\ ret.defined
    /\ DOMAIN ret.value = {"state", "lock_state", "action", "door_state", "contact"}
    /\ ret.value["lock_state"] = "unlocked"
    /\ ret.value["door_state"] = "open"
    /\ ret.value["contact"] = FALSE

\* C14 (SpecClassify): a door-trigger frame (event type 233) that passes
\* both filters yields door_state closed with contact true for composite
\* states 96 and 112, door_state open with contact false for 103 and 115, a
\* returned object with no field at all for state 0, and nothing for every
\* other composite state.
C14_DoorMiniTable ==
    (pc = "returned"
        /\ msg.data[57] = 233
        /\ outcome \notin {"malformed", "old_or_duplicate", "stale"})
    => LET st == msg.data[46]
       IN  IF st \in {96, 112}
           THEN /\ ret.defined
                /\ {"door_state", "contact"} \subseteq DOMAIN ret.value
                /\ ret.value["door_state"] = "closed"
                /\ ret.value["contact"] = TRUE
           ELSE IF st \in {103, 115}
           THEN /\ ret.defined
                /\ {"door_state", "contact"} \subseteq DOMAIN ret.value
                /\ ret.value["door_state"] = "open"
                /\ ret.value["contact"] = FALSE
           ELSE IF st = 0
           THEN ret.defined /\ DOMAIN ret.value = {}
           ELSE ~ret.defined

\* A door-trigger frame of state 0 has made convert return an object with
\* no field.
C14_Witness ==
    /\ pc = "returned"
    /\ msg.data[57] = 233
    /\ msg.data[46] = 0
    /\ outcome = "result"
    /\ ret.defined
    /\ DOMAIN ret.value = {}

\* C15 (SpecClassify): a valid-length frame whose event type is none of 19,
\* 5, 12, 23 and 233 makes convert return nothing, whatever its composite
\* state; when it is not dropped by a filter it is the unknown-event-type
\* branch that returns, after a warning.
C15_UnknownEventTypeNoEvent ==
    (pc = "returned"
        /\ msg.length >= 70 /\ msg.length <= 90
        /\ msg.data[57] \notin {19, 5, 12, 23, 233})
    => /\ ~ret.defined
       /\ outcome \in {"old_or_duplicate", "stale", "unknown_event_type"}
       /\ outcome = "unknown_event_type"
             => log[Len(log)] = <<"warning", "unknown_event_type">>

\* A frame of event type 242 and the known composite state 96 has been
\* refused as of unknown event type.
C15_Witness ==
    /\ pc = "returned"
    /\ msg.data[57] = 242
    /\ msg.data[46] = 96
    /\ outcome = "unknown_event_type"
    /\ ~ret.defined

\* C16 (SpecScope): a frame whose composite state is not 103 is never
\* dropped by the staleness filter, whatever its counter and its delay: a
\* call on such a frame does not end as stale and logs no stale warning.
C16_StalenessOnlyFor103 ==
    (pc = "returned" /\ msg.data[46] # 103)
    => /\ outcome # "stale"
       /\ \A i \in DOMAIN log : log[i] # <<"warning", "stale">>

\* A frame of state 115 has been processed although it came 301 seconds
\* after the last processed frame with a counter only 3 ahead, which is
\* what makes a frame of state 103 stale.
C16_Witness ==
    /\ pc = "returned"
    /\ msg.data[46] = 115
    /\ msg.data[13] = 203
    /\ msg.ieeeAddr \in DOMAIN before.lastEventTime
    /\ before.lastEventTime[msg.ieeeAddr] = [counter |-> 200, timestamp |-> 0]
    /\ clock = 301000
    /\ outcome = "result"
    /\ lastEventTime[msg.ieeeAddr] = [counter |-> 203, timestamp |-> 301000]

\* The part of a per-device map that belongs to device id.
OwnEntry(map, id) == [d \in DOMAIN map \cap {id} |-> map[d]]

\* C17 (SpecTwo): a call of convert on a frame of one device leaves the
\* high-water mark and the staleness record of every other device as they
\* were (absent or unchanged), and what the call does with the frame
\* (outcome and returned event) is what it would have done had the maps
\* held the sender's own entries only: frames of another device decoded
\* before it make no difference.
C17_DeviceIndependence ==
    pc = "returned"
    => /\ \A d \in TwoDevices \ {msg.ieeeAddr} :
             /\ OwnEntry(seqHighWater, d) = OwnEntry(before.seqHighWater, d)
             /\ OwnEntry(lastEventTime, d) = OwnEntry(before.lastEventTime, d)
       /\ LET alone == Decode(OwnEntry(before.seqHighWater, msg.ieeeAddr),
                              OwnEntry(before.lastEventTime, msg.ieeeAddr),
                              msg, clock)
          IN  /\ outcome = alone.outcome
              /\ ret = alone.ret
              /\ OwnEntry(seqHighWater, msg.ieeeAddr)
                     = OwnEntry(alone.seqHighWater, msg.ieeeAddr)
              /\ OwnEntry(lastEventTime, msg.ieeeAddr)
                     = OwnEntry(alone.lastEventTime, msg.ieeeAddr)

\* lockB's frame of state 103 has been dropped as stale against lockB's own
\* record (counter 72 at time 0) although lockA's frame, decoded in
\* between, left a record with the time of this call.
C17_Witness ==
    /\ pc = "returned"
    /\ msg.ieeeAddr = "lockB"
    /\ outcome = "stale"
    /\ "lockA" \in DOMAIN before.lastEventTime
    /\ "lockB" \in DOMAIN before.lastEventTime
    /\ before.lastEventTime["lockB"] = [counter |-> 72, timestamp |-> 0]
    /\ before.lastEventTime["lockA"].timestamp = clock
    /\ lastEventTime["lockA"] = before.lastEventTime["lockA"]
    /\ seqHighWater["lockA"] = before.seqHighWater["lockA"]

\* C18 (SpecFirst): the first valid-length frame of a device (the device
\* has no high-water mark yet) is dropped neither by the deduplicator nor
\* as stale, whatever its counter and composite state, and after the call
\* the device's high-water mark and the counter of its staleness record
\* both equal the frame's counter.
C18_FirstFrameAccepted ==
    (pc = "returned"
        /\ msg.length >= 70 /\ msg.length <= 90
        /\ msg.ieeeAddr \notin DOMAIN before.seqHighWater)
    => /\ outcome \notin {"malformed", "old_or_duplicate", "stale"}
       /\ msg.ieeeAddr \in DOMAIN seqHighWater
       /\ seqHighWater[msg.ieeeAddr] = msg.data[13]
       /\ msg.ieeeAddr \in DOMAIN lastEventTime
       /\ lastEventTime[msg.ieeeAddr].counter = msg.data[13]

\* A first frame of composite state 103 and counter 3, arriving 301 seconds
\* after load, has been processed and recorded.
C18_Witness ==
    /\ pc = "returned"
    /\ "lock1" \notin DOMAIN before.seqHighWater
    /\ "lock1" \notin DOMAIN before.lastEventTime
    /\ msg.data[46] = 103
    /\ msg.data[13] = 3
    /\ clock = 301000
    /\ outcome = "result"
    /\ seqHighWater["lock1"] = 3
    /\ lastEventTime["lock1"] = [counter |-> 3, timestamp |-> 301000]

\* The diagnostics of the call that the one-time cluster patch wrote.
IsPatchEntry(entry) ==
    entry[2] \in {"cluster_patched", "cluster_already_patched",
                  "cluster_not_found", "cluster_patch_failed"}

\* C19 (SpecUnconfirmed): a lock-trigger frame that passes both filters
\* with the unconfirmed composite state 112 still returns the best guess
\* (state UNLOCK, lock_state unlocked, action manual for type 19, auto for
\* 5, app for 12 and 23) and the call logs the unconfirmed-state warning;
\* with a confirmed state (0, 96, 103, 115) the frame's decoding logs no
\* warning: the one warning such a call can carry is that of the cluster
\* patch, which the first call of convert logs before it looks at the frame.
C19_UnconfirmedBestGuessWarned ==
    (pc = "returned"
        /\ msg.data[57] \in {19, 5, 12, 23}
        /\ outcome \notin {"malformed", "old_or_duplicate", "stale"})
    => /\ msg.data[46] = 112 =>
            /\ ret.defined
            /\ DOMAIN ret.value = {"state", "lock_state", "action"}
            /\ ret.value["state"] = "UNLOCK"
            /\ ret.value["lock_state"] = "unlocked"
            /\ ret.value["action"] =
                  (IF msg.data[57] = 19 THEN "manual"
                   ELSE IF msg.data[57] = 5 THEN "auto" ELSE "app")
            /\ \E i \in DOMAIN log : log[i] = <<"warning", "unconfirmed_state">>
       /\ msg.data[46] \in {0, 96, 103, 115} =>
            /\ ret.defined
            /\ \A i \in DOMAIN log :
                  log[i][1] = "warning"
                     => /\ IsPatchEntry(log[i])
                        /\ i = 1
                        /\ before.seqHighWater = EmptyMap

\* An auto-lock frame of state 112, not the first frame of the lock, has
\* returned the best guess and its call logged exactly the warning and the
\* routine debug line.
C19_Witness ==
    /\ pc = "returned"
    /\ msg.data[57] = 5
    /\ msg.data[46] = 112
    /\ "lock1" \in DOMAIN before.seqHighWater
    /\ ret.defined
    /\ ret.value["action"] = "auto"
    /\ ret.value["lock_state"] = "unlocked"
    /\ log = << <<"warning", "unconfirmed_state">>, <<"debug", "lock_event">> >>

\* The composite states for which the lock branch finds a StateInfo entry:
\* those that a lock-trigger frame is not refused for as of unknown state.
KnownLockStates ==
    {st \in Byte : \E evt \in LOCK_EVT_TYPES :
                      Classify(evt, st).outcome # "unknown_state"}

\* C20 (SpecClassify), the claim as stated: exactly six composite states
\* are mapped to a StateInfo entry, and a lock-trigger frame with any other
\* 8-bit composite state yields no event.
C20_SixKnownStates ==
    /\ Cardinality(KnownLockStates) = 6
    /\ (pc = "returned"
           /\ msg.data[57] \in {19, 5, 12, 23}
           /\ msg.data[46] \notin KnownLockStates)
       => ~ret.defined

\* C20 (SpecClassify), amended: exactly five composite states are mapped to
\* a StateInfo entry, namely 0, 96, 103, 112 and 115; a lock-trigger frame
\* that reaches the classifier yields an event when its composite state is
\* one of the five, and for each of the other 251 values it is refused as
\* of unknown state and yields no event.
C20_FiveKnownStates ==
    /\ Cardinality(KnownLockStates) = 5
    /\ (pc = "returned"
           /\ msg.data[57] \in {19, 5, 12, 23}
           /\ outcome \notin {"malformed", "old_or_duplicate", "stale"})
       => IF msg.data[46] \in {0, 96, 103, 112, 115}
          THEN ret.defined /\ "lock_state" \in DOMAIN ret.value
          ELSE ~ret.defined /\ outcome = "unknown_state"

\* A manual frame of composite state 99, which is in no table, has been
\* refused as of unknown state.
C20_Witness ==
    /\ pc = "returned"
    /\ msg.data[57] = 19
    /\ msg.data[46] = 99
    /\ outcome = "unknown_state"
    /\ ~ret.defined
    /\ log[Len(log)] = <<"warning", "unknown_state">>

\* The value of an option as the claim has it: the supplied value, whatever
\* it is, and the compiled-in default only when none was supplied.
Supplied(opts, name, default) ==
    IF name \in DOMAIN opts THEN opts[name] ELSE default

\* C21 (SpecOptions), the claim as stated: for each of the eight options
\* and every value v in 0..255 supplied for it, the parameterized converter
\* compares the frame's event type and state against v in place of the
\* default, so what it returns is what the two chains yield with v.
C21_SuppliedValueCompared ==
    (pc = "returned" /\ outcome = "c4_result")
    => ret.value =
         C4Classify([DOOR   |-> Supplied(options, "source_door", 242),
                     MANUAL |-> Supplied(options, "source_manual", 8),
                     AUTO   |-> Supplied(options, "source_auto", 5),
                     APP    |-> Supplied(options, "source_app", 12)],
                    [OPEN   |-> Supplied(options, "door_open", 91),
                     CLOSED |-> Supplied(options, "door_closed", 88)],
                    [LOCKED   |-> Supplied(options, "lock_locked", 72),
                     UNLOCKED |-> Supplied(options, "lock_unlocked", 79)],
                    msg.data[57], msg.data[46]).value

\* C22 (SpecDedup), the claim as stated: the examples documented beside
\* isOldOrDuplicate.  With a high-water mark of 200 a frame of counter 5 is
\* dropped by the deduplicator; with a high-water mark of 72, frames of
\* counter 68 and 72 are dropped and a frame of counter 73 is kept.
C22_DocumentedWrapExamples ==
    (pc = "returned" /\ msg.length >= 70 /\ msg.length <= 90
        /\ msg.ieeeAddr \in DOMAIN before.seqHighWater)
    => LET hw == before.seqHighWater[msg.ieeeAddr]
           c  == msg.data[13]
       IN  /\ (hw = 200 /\ c = 5) => outcome = "old_or_duplicate"
           /\ (hw = 72 /\ c \in {68, 72}) => outcome = "old_or_duplicate"
           /\ (hw = 72 /\ c = 73) => outcome # "old_or_duplicate"

\* C23 (SpecScope), the claim as stated: a door-trigger frame (event type
\* 233) is never dropped by the staleness filter, whatever its composite
\* state, counter and delay; a frame that is dropped as stale has a
\* lock-trigger event type (19, 5, 12, 23).
C23_DoorFramesNeverStale ==
    pc = "returned"
    => /\ msg.data[57] = 233 => outcome # "stale"
       /\ outcome = "stale" => msg.data[57] \in {19, 5, 12, 23}

\* C24 (Spec): a frame that gets past the deduplicator and is dropped as
\* stale leaves the device's high-water mark at its counter and the
\* staleness record as it was; every retransmission of that frame is then
\* dropped as old or duplicate, returns nothing and changes neither map,
\* however late it arrives.
C24_StaleDropConsumesCounter ==
    pc = "returned"
    => /\ outcome = "stale" =>
            /\ msg.ieeeAddr \in DOMAIN seqHighWater
            /\ seqHighWater[msg.ieeeAddr] = msg.data[13]
            /\ lastEventTime = before.lastEventTime
       /\ (replays > 0 /\ firstOutcome = "stale") =>
            /\ outcome = "old_or_duplicate"
            /\ ~ret.defined
            /\ seqHighWater = before.seqHighWater
            /\ seqHighWater[msg.ieeeAddr] = msg.data[13]
            /\ lastEventTime = before.lastEventTime

\* A frame dropped as stale has been retransmitted 7201 seconds later, past
\* the safety valve of the staleness filter, and was dropped as a duplicate.
C24_Witness ==
    /\ pc = "returned"
    /\ replays = 1
    /\ firstOutcome = "stale"
    /\ outcome = "old_or_duplicate"
    /\ msg.data[46] = 103
    /\ msg.ieeeAddr \in DOMAIN lastEventTime
    /\ clock - lastEventTime[msg.ieeeAddr].timestamp >= 7201000 + 301000
    /\ lastEventTime[msg.ieeeAddr].counter # msg.data[13]
    /\ seqHighWater[msg.ieeeAddr] = msg.data[13]

\* C25 (Spec): in every reachable state a device with a staleness record
\* has a high-water mark; right after a call of convert whose frame passed
\* both filters the counter of the device's staleness record equals its
\* high-water mark; and a call after which the two differ for a device,
\* when they did not differ before it, is a call that dropped a frame of
\* that device as stale.
C25_RecordFollowsHighWater ==
    /\ DOMAIN lastEventTime \subseteq DOMAIN seqHighWater
    /\ (pc = "returned"
           /\ outcome \notin {"malformed", "old_or_duplicate", "stale"})
       => /\ msg.ieeeAddr \in DOMAIN lastEventTime
          /\ lastEventTime[msg.ieeeAddr].counter = seqHighWater[msg.ieeeAddr]
    /\ pc = "returned"
       => \A d \in DOMAIN lastEventTime :
             (/\ lastEventTime[d].counter # seqHighWater[d]
              /\ d \in DOMAIN before.lastEventTime
                    => before.lastEventTime[d].counter = before.seqHighWater[d])
             => (outcome = "stale" /\ d = msg.ieeeAddr)

\* After a stale drop had left the record's counter (72) behind the
\* high-water mark (75), a frame has passed both filters and brought the
\* two together again.
C25_Witness ==
    /\ pc = "returned"
    /\ outcome = "result"
    /\ msg.ieeeAddr \in DOMAIN before.lastEventTime
    /\ before.lastEventTime[msg.ieeeAddr].counter = 72
    /\ before.seqHighWater[msg.ieeeAddr] = 75
    /\ lastEventTime[msg.ieeeAddr].counter = msg.data[13]
    /\ seqHighWater[msg.ieeeAddr] = msg.data[13]

====
